---- MODULE Spec2Model ----
(***************************************************************************)
(* FieldElement (src/src/ecc.rs): a residue `num` with a modulus `prime`,  *)
(* both arbitrary-precision unsigned integers (ibig::UBig), the fallible   *)
(* constructor `new`, the operators + - (unary -) * / and `pow`, and the   *)
(* structural equality.  Every operation is a pure function of its         *)
(* operands; the state machine below is a caller that holds two elements   *)
(* `a` and `b`, calls one operation at a time and may bind the value a     *)
(* call returned to `a` or `b` for the following calls.                    *)
(***************************************************************************)
EXTENDS Integers, FiniteSets

VARIABLES a, b, call, res

vars == <<a, b, call, res>>

\* ---------------------------------------------------------------- bounds
\* Largest `num` and largest `prime` handed to FieldElement::new.
MaxNum == 8
MaxPrime == 7
\* A signed `power` (i128) is sign * (hi * 2^64 + lo): lo is the part of its
\* magnitude within the 64 bits of usize, hi the part above them.
MaxHi == 1
MaxLo == 3

\* ------------------------------------------------------- values returned
FieldElement(num, prime) == [num |-> num, prime |-> prime]

Ok(e) == [tag |-> "Ok", num |-> e.num, prime |-> e.prime]

\* ValueError { message }: the message is the text "num {} not in field
\* range 0 to {}" with its two formatted numbers.
ValueError(shown, upper) == [shown |-> shown, upper |-> upper]

Err(e) == [tag |-> "Err", message |-> e]

\* A panic (assert_eq! failing, UBig subtraction below zero, UBig division
\* by zero): the call returns no value.
Panic == [tag |-> "Panic"]

None == [tag |-> "None"]

IsElement(r) == DOMAIN r = {"num", "prime"}

\* ----------------------------------------------------------- arithmetic
RECURSIVE UBigPow(_, _)
\* UBig::pow: base^exp as an unbounded integer, with 0^0 = 1.
UBigPow(base, exp) == IF exp = 0 THEN 1 ELSE base * UBigPow(base, exp - 1)

\* ---------------------------------------------------------- FieldElement
\* FieldElement::new.  The Err arm formats `prime - ubig!(1)`, and UBig
\* subtraction panics when the result would be negative.
New(num, prime) ==
    IF num >= prime
    THEN IF prime - 1 < 0 THEN Panic ELSE Err(ValueError(num, prime - 1))
    ELSE Ok(FieldElement(num, prime))

\* Add with the sum left unreduced.
AddNoReduce(self, rhs) ==
    IF self.prime # rhs.prime THEN Panic
    ELSE FieldElement(self.num + rhs.num, self.prime)

\* Add with the reduction bound to the right operand alone.
AddReducesRhsOnly(self, rhs) ==
    IF self.prime # rhs.prime THEN Panic
    ELSE FieldElement(self.num + (rhs.num % self.prime), self.prime)

Add(self, rhs) ==
    IF self.prime # rhs.prime THEN Panic
    ELSE FieldElement((self.num + rhs.num) % self.prime, self.prime)

\* Sub returning the plain difference rhs - self on the borrow branch.
SubNoBorrow(self, rhs) ==
    IF self.prime # rhs.prime THEN Panic
    ELSE FieldElement(IF self.num < rhs.num THEN rhs.num - self.num
                      ELSE self.num - rhs.num, self.prime)

Sub(self, rhs) ==
    IF self.prime # rhs.prime THEN Panic
    ELSE FieldElement(IF self.num < rhs.num
                      THEN self.prime - ((rhs.num - self.num) % self.prime)
                      ELSE self.num - rhs.num, self.prime)

Neg(self) == FieldElement(self.prime - (self.num % self.prime), self.prime)

Eq(self, other) == self.num = other.num /\ self.prime = other.prime

\* Mul with the product left unreduced.
MulNoReduce(self, rhs) ==
    IF self.prime # rhs.prime THEN Panic
    ELSE FieldElement(self.num * rhs.num, self.prime)

Mul(self, rhs) ==
    IF self.prime # rhs.prime THEN Panic
    ELSE FieldElement((self.num * rhs.num) % self.prime, self.prime)

\* Div without the assert_eq! on the moduli.
DivNoAssert(self, rhs) ==
    IF rhs.num = 0 THEN Panic
    ELSE FieldElement((self.num \div rhs.num) % self.prime, self.prime)

\* UBig division panics on a zero divisor.
Div(self, rhs) ==
    IF self.prime # rhs.prime THEN Panic
    ELSE IF rhs.num = 0 THEN Panic
    ELSE FieldElement((self.num \div rhs.num) % self.prime, self.prime)

\* A signed power as the caller passes it.
Power(neg, hi, lo) == [neg |-> neg, hi |-> hi, lo |-> lo]

IsNegative(power) == power.neg

\* `x as usize` of a non-negative i128 x = hi * 2^64 + lo: its low 64 bits.
AsUsize(power) == power.lo

\* The exponent `exp` that pow hands to UBig::pow.
Exp(power) == IF IsNegative(power) THEN 1 + AsUsize(power) ELSE AsUsize(power)

Pow(self, power) ==
    FieldElement(UBigPow(self.num, Exp(power)) % self.prime, self.prime)

\* ------------------------------------------------------------ the caller
Powers ==
    { Power(n, h, l) : n \in BOOLEAN, h \in 0..MaxHi, l \in 0..MaxLo }
    \ { Power(TRUE, 0, 0) }

NoCall == [op |-> "none", num |-> 0, prime |-> 0, power |-> Power(FALSE, 0, 0)]

Call(op) == [NoCall EXCEPT !.op = op]

Returned(r) == IF IsElement(r) THEN Ok(r) ELSE r

Init ==
    /\ \E n \in 0..MaxNum, p \in 0..MaxPrime :
          n < p /\ a = FieldElement(n, p)
    /\ \E n \in 0..MaxNum, p \in 0..MaxPrime :
          n < p /\ b = FieldElement(n, p)
    /\ call = NoCall
    /\ res = None

Running == res.tag # "Panic"

CallNew ==
    /\ Running
    /\ \E n \in 0..MaxNum, p \in 0..MaxPrime :
          /\ call' = [NoCall EXCEPT !.op = "new", !.num = n, !.prime = p]
          /\ res' = New(n, p)
    /\ UNCHANGED <<a, b>>

CallAdd ==
    /\ Running
    /\ call' = Call("add")
    /\ res' = Returned(Add(a, b))
    /\ UNCHANGED <<a, b>>

CallSub ==
    /\ Running
    /\ call' = Call("sub")
    /\ res' = Returned(Sub(a, b))
    /\ UNCHANGED <<a, b>>

CallNeg ==
    /\ Running
    /\ call' = Call("neg")
    /\ res' = Returned(Neg(a))
    /\ UNCHANGED <<a, b>>

CallMul ==
    /\ Running
    /\ call' = Call("mul")
    /\ res' = Returned(Mul(a, b))
    /\ UNCHANGED <<a, b>>

CallDiv ==
    /\ Running
    /\ call' = Call("div")
    /\ res' = Returned(Div(a, b))
    /\ UNCHANGED <<a, b>>

CallPow ==
    /\ Running
    /\ \E k \in Powers :
          /\ call' = [NoCall EXCEPT !.op = "pow", !.power = k]
          /\ res' = Returned(Pow(a, k))
    /\ UNCHANGED <<a, b>>

\* The caller binds the element a call returned (the unwrapped Ok of new,
\* or an operator's result) to `a` or `b`.
BindA ==
    /\ res.tag = "Ok"
    /\ a' = FieldElement(res.num, res.prime)
    /\ call' = NoCall
    /\ res' = None
    /\ UNCHANGED b

BindB ==
    /\ res.tag = "Ok"
    /\ b' = FieldElement(res.num, res.prime)
    /\ call' = NoCall
    /\ res' = None
    /\ UNCHANGED a

Next ==
    \/ CallNew
    \/ CallAdd
    \/ CallSub
    \/ CallNeg
    \/ CallMul
    \/ CallDiv
    \/ CallPow
    \/ BindA
    \/ BindB

Spec == Init /\ [][Next]_vars

\* ===================================================================
\* Properties.  The arithmetic they are stated against is the mathematics
\* of the integers and of GF(p), defined here independently of the
\* operators above.
\* ===================================================================
BinaryOps == {"add", "sub", "mul", "div"}

\* An element FieldElement::new returns: new(num, prime) is Ok of it.
Valid(e) == New(e.num, e.prime) = Ok(e)

IsPrime(p) == p >= 2 /\ \A d \in 2..(p - 1) : p % d # 0

RECURSIVE ModPow(_, _, _)
\* base^exp mod m for a natural exp, reducing at every step.
ModPow(base, exp, m) ==
    IF exp = 0 THEN 1 % m ELSE (base * ModPow(base, exp - 1, m)) % m

Square(x, m) == (x * x) % m

\* x^(2^4) mod m: four squarings, each on the value of the one before.
Square4(x, m) ==
    CHOOSE v \in { Square(y3, m) : y3 \in { Square(y2, m) :
                   y2 \in { Square(y1, m) : y1 \in { Square(x, m) } } } } : TRUE

\* x^(2^16) mod m.
Square16(x, m) ==
    CHOOSE v \in { Square4(y3, m) : y3 \in { Square4(y2, m) :
                   y2 \in { Square4(y1, m) : y1 \in { Square4(x, m) } } } } : TRUE

\* x^(2^64) mod m.
Square64(x, m) ==
    CHOOSE v \in { Square16(y3, m) : y3 \in { Square16(y2, m) :
                   y2 \in { Square16(y1, m) : y1 \in { Square16(x, m) } } } } : TRUE

\* 2^64 mod m, as (2^4)^(2^4).
TwoTo64Mod(m) == Square4(Square(Square(2, m), m), m)

\* base^(hi * 2^64 + lo) mod m.
WidePowMod(base, hi, lo, m) ==
    (ModPow(Square64(base, m), hi, m) * ModPow(base, lo, m)) % m

\* k mod m in 0..m-1 for the signed power k.
PowerMod(k, m) ==
    LET mag == (k.hi * TwoTo64Mod(m) + k.lo) % m
    IN  IF k.neg THEN (m - mag) % m ELSE mag

\* -------------------------------------------------------------------
\* C1: FieldElement::new(num, prime) returns Ok of the element with exactly
\* these num and prime when num < prime, and Err(ValueError) whenever
\* num >= prime.
NewSucceedsIffInRange ==
    call.op = "new" =>
        IF call.num < call.prime
        THEN res = Ok(FieldElement(call.num, call.prime))
        ELSE res.tag = "Err"

\* The same contract for the moduli an element can have (prime >= 1); the
\* message then shows num and prime - 1.
NewSucceedsIffInRangePositivePrime ==
    (call.op = "new" /\ call.prime >= 1) =>
        IF call.num < call.prime
        THEN res = Ok(FieldElement(call.num, call.prime))
        ELSE res = Err(ValueError(call.num, call.prime - 1))

\* -------------------------------------------------------------------
\* C2: every element the caller holds or an operator returns, starting from
\* elements new accepted, has 0 <= num < prime, and an operator's result has
\* the modulus of its operands.
InRange(e) == 0 <= e.num /\ e.num < e.prime

RangeInvariant ==
    /\ InRange(a)
    /\ InRange(b)
    /\ (res.tag = "Ok" /\ call.op # "new") => (InRange(res) /\ res.prime = a.prime)

\* -------------------------------------------------------------------
\* C3: for a non-zero element of a prime modulus p and a power k < 0,
\* pow returns num^(k mod (p-1)) mod p, the inverse of num^(-k).
NegativePowIsFieldPower ==
    (/\ call.op = "pow"
     /\ IsNegative(call.power)
     /\ Valid(a)
     /\ a.num # 0
     /\ IsPrime(a.prime)) =>
        /\ res = Ok(FieldElement(
                    ModPow(a.num, PowerMod(call.power, a.prime - 1), a.prime),
                    a.prime))
        /\ (res.num * WidePowMod(a.num, call.power.hi, call.power.lo, a.prime))
               % a.prime = 1

\* -------------------------------------------------------------------
\* C4: for elements a, b of one prime modulus p with b.num # 0, a / b is
\* the element c of modulus p with c * b == a.
DivIsFieldDivision ==
    (/\ call.op = "div"
     /\ Valid(a) /\ Valid(b)
     /\ a.prime = b.prime
     /\ IsPrime(a.prime)
     /\ b.num # 0) =>
        /\ res.tag = "Ok"
        /\ res.prime = a.prime
        /\ InRange(res)
        /\ (res.num * b.num) % a.prime = a.num
        /\ res.num = (a.num * ModPow(b.num, a.prime - 2, a.prime)) % a.prime

\* -------------------------------------------------------------------
\* C5: for elements a, b of one modulus p, a - b has modulus p and its num
\* is the residue in [0, p) congruent to a.num - b.num, on both branches;
\* a - a is the zero element.
SubIsModularSubtraction ==
    (/\ call.op = "sub"
     /\ Valid(a) /\ Valid(b)
     /\ a.prime = b.prime) =>
        /\ res.tag = "Ok"
        /\ res.prime = a.prime
        /\ InRange(res)
        /\ \E q \in {-1, 0} : a.num - b.num = q * a.prime + res.num
        /\ (Eq(a, b) => res.num = 0)

SubBorrowReached ==
    /\ call.op = "sub"
    /\ Valid(a) /\ Valid(b)
    /\ a.prime = b.prime
    /\ a.num < b.num
    /\ res.tag = "Ok"
    /\ res.num = a.num + a.prime - b.num

\* -------------------------------------------------------------------
\* C6: for elements a, b of one modulus p, a + b has modulus p and its num
\* is the residue in [0, p) of a.num + b.num, and it equals b + a.
AddIsModularAddition ==
    (/\ call.op = "add"
     /\ Valid(a) /\ Valid(b)
     /\ a.prime = b.prime) =>
        /\ res.tag = "Ok"
        /\ res.prime = a.prime
        /\ InRange(res)
        /\ \E q \in {0, 1} : a.num + b.num = q * a.prime + res.num
        /\ Eq(res, Add(b, a))

AddWrapReached ==
    /\ call.op = "add"
    /\ Valid(a) /\ Valid(b)
    /\ a.prime = b.prime
    /\ a.num # b.num
    /\ a.num + b.num > a.prime
    /\ res.tag = "Ok"

\* -------------------------------------------------------------------
\* C7: for elements a, b of one modulus p, a * b has modulus p and its num
\* is the residue in [0, p) of a.num * b.num, and it equals b * a.
MulIsModularMultiplication ==
    (/\ call.op = "mul"
     /\ Valid(a) /\ Valid(b)
     /\ a.prime = b.prime) =>
        /\ res.tag = "Ok"
        /\ res.prime = a.prime
        /\ InRange(res)
        /\ \E q \in 0..a.prime : a.num * b.num = q * a.prime + res.num
        /\ Eq(res, Mul(b, a))

MulWrapReached ==
    /\ call.op = "mul"
    /\ Valid(a) /\ Valid(b)
    /\ a.prime = b.prime
    /\ a.num # b.num
    /\ a.num * b.num > a.prime
    /\ res.tag = "Ok"

\* -------------------------------------------------------------------
\* C8: whenever the operands' moduli differ, each of + - * / panics and
\* returns no element, whatever the nums are.
MismatchIsFatal ==
    (call.op \in BinaryOps /\ a.prime # b.prime) => res = Panic

MismatchPanicReached ==
    /\ call.op = "div"
    /\ a.prime # b.prime
    /\ b.num # 0
    /\ a.num >= b.num
    /\ res = Panic

\* -------------------------------------------------------------------
\* C9: for an element a and a signed power k, pow returns the element of
\* the same modulus with num = a.num^e mod prime, where e = k for k >= 0
\* and e = 1 + |k| for k < 0.
PowExponentSelection ==
    (call.op = "pow" /\ Valid(a)) =>
        LET k == call.power
            e == IF IsNegative(k) THEN 1 + k.lo ELSE k.lo
        IN  res = Ok(FieldElement(WidePowMod(a.num, k.hi, e, a.prime), a.prime))

\* The same statement for the powers whose magnitude fits in usize.
PowExponentSelectionWithinUsize ==
    (call.op = "pow" /\ Valid(a) /\ call.power.hi = 0) =>
        LET k == call.power
            e == IF IsNegative(k) THEN 1 + k.lo ELSE k.lo
        IN  res = Ok(FieldElement(ModPow(a.num, e, a.prime), a.prime))

\* -------------------------------------------------------------------
\* C10: for an element a, zero included, a + (-a) and (-a) + a equal
\* FieldElement(0, prime) under the program's own + and ==.
NegIsAdditiveInverse ==
    /\ (call.op = "add" /\ Valid(a) /\ Eq(b, Neg(a))) =>
           (res.tag = "Ok" /\ Eq(res, FieldElement(0, a.prime)))
    /\ (call.op = "add" /\ Valid(b) /\ Eq(a, Neg(b))) =>
           (res.tag = "Ok" /\ Eq(res, FieldElement(0, b.prime)))

NegZeroAddedReached ==
    /\ call.op = "add"
    /\ Valid(a)
    /\ a.num = 0
    /\ Eq(b, Neg(a))
    /\ b.num = b.prime
    /\ res = Ok(FieldElement(0, a.prime))

====
